---- MODULE Spec2Model ----
(***************************************************************************)
(* Model of the monthly aggregation pipeline of app_streamlit.py: the      *)
(* history normalizer (ensure_history_df), the statement calculator        *)
(* (dre_from_inputs) and the submission handler (the `if ok:` block) that  *)
(* merges the current month into the history, derives the cumulative       *)
(* balance, the margins, the alerts and the expense projection.            *)
(* The ledger page pages/1_Fluxo_de_Caixa.py is modelled next to it: the   *)
(* file of transactions, the cache of load_transacoes, and the runs of the *)
(* page in one or two sessions.                                            *)
(*                                                                         *)
(* Money is modelled by integers (the form's floats), a ratio by a pair    *)
(* numerator / denominator, a DataFrame by its column names and its rows   *)
(* of cells, a pandas Timestamp by (month number, day, hour).              *)
(***************************************************************************)
EXTENDS Integers, Sequences, FiniteSets, TLC

VARIABLES file, hist_df, pc, form, out

\* the ledger page: the file DATA_PATH, the cache of load_transacoes, the
\* sessions of the page and what each of them shows
VARIABLES csv, cache, ses, view

lvars == <<csv, cache, ses, view>>

vars == <<file, hist_df, pc, form, out, csv, cache, ses, view>>

(***************************************************************************)
(* Cells.  One record shape for every value a DataFrame cell holds:        *)
(*   k = "num"   a number v / q                                            *)
(*   k = "txt"   a text that is no number (to_numeric -> NaN)              *)
(*   k = "nan"   NaN                                                       *)
(*   k = "ym"    the text YYYY<sep>MM of month ym                          *)
(*   k = "date"  the text YYYY-MM-DD                                       *)
(*   k = "dateh" the text YYYY-MM-DD-HH (a date text followed by "-01")    *)
(*   k = "junk"  a text that is no date                                    *)
(*   k = "ts"    the Timestamp of day d of month ym at hour h              *)
(*   k = "nat"   NaT                                                       *)
(***************************************************************************)
Cell(k, sep, ym, d, h, v, q) ==
    [k |-> k, sep |-> sep, ym |-> ym, d |-> d, h |-> h, v |-> v, q |-> q]

Num(v) == Cell("num", "", 0, 0, 0, v, 1)

Rat(n, q) == Cell("num", "", 0, 0, 0, n, q)

Txt == Cell("txt", "", 0, 0, 0, 0, 1)

NaN == Cell("nan", "", 0, 0, 0, 0, 1)

YmText(sep, ym) == Cell("ym", sep, ym, 0, 0, 0, 1)

DateText(ym, d) == Cell("date", "-", ym, d, 0, 0, 1)

DateHourText(ym, d, h) == Cell("dateh", "-", ym, d, h, 0, 1)

JunkText == Cell("junk", "", 0, 0, 0, 0, 1)

Ts(ym, d, h) == Cell("ts", "", ym, d, h, 0, 1)

NaT == Cell("nat", "", 0, 0, 0, 0, 1)

\* The order of Timestamps (and NaT, which the sorts below never see).
TsKey(c) == (c.ym * 100 + c.d) * 100 + c.h

(***************************************************************************)
(* DataFrames: cols is the sequence of column names, rows the sequence of  *)
(* rows, each a sequence of cells parallel to cols.                        *)
(***************************************************************************)
Frame(cols, rows) == [cols |-> cols, rows |-> rows]

NoFrame == Frame(<<>>, <<>>)

HasCol(df, c) == \E j \in 1..Len(df.cols) : df.cols[j] = c

ColIdx(df, c) == CHOOSE j \in 1..Len(df.cols) : df.cols[j] = c

\* df[c] as the sequence of the column's cells
Col(df, c) == [i \in 1..Len(df.rows) |-> df.rows[i][ColIdx(df, c)]]

\* df[c] = values: replaces the column, or appends it as the last one
SetCol(df, c, values) ==
    IF HasCol(df, c)
    THEN Frame(df.cols,
               [i \in 1..Len(df.rows) |->
                   [j \in 1..Len(df.cols) |->
                       IF j = ColIdx(df, c) THEN values[i] ELSE df.rows[i][j]]])
    ELSE Frame(Append(df.cols, c),
               [i \in 1..Len(df.rows) |-> Append(df.rows[i], values[i])])

\* df[names] keeping every column of df
Project_KeepAll(df, names) == df

\* df[names]: the projection on the named columns, in that order
Project(df, names) ==
    Frame(names,
          [i \in 1..Len(df.rows) |->
              [j \in 1..Len(names) |-> df.rows[i][ColIdx(df, names[j])]]])

\* df.empty
IsEmpty(df) == Len(df.cols) = 0 \/ Len(df.rows) = 0

RECURSIVE SelectRows(_, _)
\* df[mask]: the rows whose mask is TRUE, in their order
SelectRows(rows, mask) ==
    IF rows = <<>> THEN <<>>
    ELSE LET rest == SelectRows(Tail(rows), Tail(mask))
         IN  IF Head(mask) THEN <<Head(rows)>> \o rest ELSE rest

RECURSIVE InsertRow(_, _, _)
\* r put after every row of the sorted rows s whose key is <= r's
InsertRow(r, s, j) ==
    IF s = <<>> THEN <<r>>
    ELSE IF TsKey(Head(s)[j]) <= TsKey(r[j])
         THEN <<Head(s)>> \o InsertRow(r, Tail(s), j)
         ELSE <<r>> \o s

RECURSIVE SortRows(_, _)
\* the rows in ascending order of the Timestamp in column j, equal keys in
\* their original order (numpy sorts arrays this short by insertion)
SortRows(rows, j) ==
    IF rows = <<>> THEN <<>>
    ELSE InsertRow(rows[Len(rows)], SortRows(SubSeq(rows, 1, Len(rows) - 1), j), j)

\* df.sort_values(c).reset_index(drop=True)
sort_values(df, c) == Frame(df.cols, SortRows(df.rows, ColIdx(df, c)))

RECURSIVE SumTo(_, _)
\* the sum of the first k numbers of the sequence of cells s
SumTo(s, k) == IF k = 0 THEN 0 ELSE SumTo(s, k - 1) + s[k].v

\* s.cumsum()
cumsum(s) == [i \in 1..Len(s) |-> Num(SumTo(s, i))]

(***************************************************************************)
(* ensure_history_df                                                       *)
(***************************************************************************)
needed ==
    <<"mes", "receita_liq", "cpv_csv", "despesas",
      "entradas", "saidas", "orcado_receita", "orcado_despesas">>

\* `df is None`: a frame with no column and no row stands for it
None == NoFrame

\* c.strip().lower() on the column names the uploads use
StripLower(c) ==
    CASE c = " Mes "        -> "mes"
      [] c = "RECEITA"      -> "receita"
      [] c = "Receita_Liquida" -> "receita_liquida"
      [] c = "CPV "         -> "cpv"
      [] c = " csv"         -> "csv"
      [] OTHER              -> c

\* df.rename(columns=rename_map) on one name
rename_map(c) ==
    CASE c = "receita"          -> "receita_liq"
      [] c = "receita_liquida"  -> "receita_liq"
      [] c = "cpv"              -> "cpv_csv"
      [] c = "csv"              -> "cpv_csv"
      [] c = "orcado_receitas"  -> "orcado_receita"
      [] c = "orcado_despesa"   -> "orcado_despesas"
      [] OTHER                  -> c

RECURSIVE FillMissing(_, _)
\* for c in needed[1..k]: if c not in df.columns: df[c] = 0.0
FillMissing(df, k) ==
    IF k = 0 THEN df
    ELSE LET d == FillMissing(df, k - 1)
         IN  IF HasCol(d, needed[k]) THEN d
             ELSE SetCol(d, needed[k], [i \in 1..Len(d.rows) |-> Num(0)])

\* Series.astype(str): a datetime column whose times are all midnight is
\* written as dates only; a text stays; a number or NaN gives no date text
astype_str(s) ==
    [i \in 1..Len(s) |->
        CASE s[i].k = "ts" /\ (\A n \in 1..Len(s) : s[n].k = "ts" => s[n].h = 0)
                -> DateText(s[i].ym, s[i].d)
          [] s[i].k \in {"ym", "date", "dateh", "junk"} -> s[i]
          [] s[i].k \in {"num", "txt", "nan", "nat"} -> JunkText]

\* .str.replace("/", "-")
str_replace(s) ==
    [i \in 1..Len(s) |->
        IF s[i].k = "ym" THEN YmText("-", s[i].ym) ELSE s[i]]

\* + "-01"
plus01(s) ==
    [i \in 1..Len(s) |->
        CASE s[i].k = "ym" /\ s[i].sep = "-" -> DateText(s[i].ym, 1)
          [] s[i].k = "date"  -> DateHourText(s[i].ym, s[i].d, 1)
          [] OTHER            -> JunkText]

\* pd.to_datetime(s, errors="coerce"): YYYY-MM-DD is that day at midnight;
\* the trailing number of YYYY-MM-DD-HH is read as the hour (dateutil takes a
\* two-digit number that follows a complete date for the hour, and the
\* format pandas infers is %Y-%m-%d-%H); anything else is NaT
to_datetime(s) ==
    [i \in 1..Len(s) |->
        CASE s[i].k = "date"  -> Ts(s[i].ym, s[i].d, 0)
          [] s[i].k = "dateh" -> Ts(s[i].ym, s[i].d, s[i].h)
          [] OTHER            -> NaT]

\* pd.to_numeric(s, errors="coerce").fillna(0.0)
to_numeric_fillna(s) ==
    [i \in 1..Len(s) |-> IF s[i].k = "num" THEN s[i] ELSE Num(0)]

RECURSIVE CoerceNumeric(_, _)
\* for c in needed[2..k]: df[c] = pd.to_numeric(df[c], ...).fillna(0.0)
CoerceNumeric(df, k) ==
    IF k <= 1 THEN df
    ELSE LET d == CoerceNumeric(df, k - 1)
         IN  SetCol(d, needed[k], to_numeric_fillna(Col(d, needed[k])))

\* df.dropna(subset=[c])
dropna(df, c) ==
    Frame(df.cols,
          SelectRows(df.rows, [i \in 1..Len(df.rows) |-> Col(df, c)[i].k # "nat"]))

\* df.columns = [c.strip().lower() ...]; df = df.rename(columns=rename_map)
NormalizeNames(df) ==
    Frame([j \in 1..Len(df.cols) |-> rename_map(StripLower(df.cols[j]))], df.rows)

\* df["mes"] = pd.to_datetime(df["mes"].astype(str).str.replace("/", "-") + "-01", ...)
ParseMes(df) ==
    SetCol(df, "mes", to_datetime(plus01(str_replace(astype_str(Col(df, "mes"))))))

\* the exception that ends a run of the script
Exception == [error |-> TRUE]

\* two columns of df carry the name c: df[c] is then a DataFrame, not a Series
Duplicated(df, c) == \E i, j \in 1..Len(df.cols) : i # j /\ df.cols[i] = c /\ df.cols[j] = c

\* df["mes"].astype(str).str (AttributeError) or pd.to_numeric(df[c])
\* (TypeError) is given a DataFrame: a needed column is there twice
RaisesOnColumns(df) == \E k \in 1..Len(needed) : Duplicated(df, needed[k])

ensure_history_df(df) ==
    IF df = None \/ IsEmpty(df)
    THEN Frame(needed, <<>>)
    ELSE IF RaisesOnColumns(NormalizeNames(df))
    THEN Exception
    ELSE sort_values(
           dropna(
             Project(
               CoerceNumeric(
                 ParseMes(FillMissing(NormalizeNames(df), Len(needed))),
                 Len(needed)),
               needed),
             "mes"),
           "mes")

(***************************************************************************)
(* dre_from_inputs                                                         *)
(***************************************************************************)
\* Max0 without the floor at zero
Max0_NoFloor(a) == a

\* max(a, 0.0)
Max0(a) == IF a > 0 THEN a ELSE 0

dre_from_inputs(vendas_prod, prest_serv, outras_rec, devolucoes, descontos, imp_vendas, cpv_prod, csv_serv, mao_obra, comissoes, marketing, vendas, sal_admin, aluguel, utilidades, mat_escr, contab, seguros, deprec, provisoes, jur_pagos, iof, tarifas, jur_receb, rend_apl, ir_val, csll_val) ==
    LET receita_bruta   == vendas_prod + prest_serv + outras_rec
        deducoes        == devolucoes + descontos + imp_vendas
        receita_liq     == Max0(receita_bruta - deducoes)
        cpv_csv         == cpv_prod + csv_serv + mao_obra
        lucro_bruto     == receita_liq - cpv_csv
        desp_comerciais == comissoes + marketing + vendas
        desp_adm        == sal_admin + aluguel + utilidades + mat_escr + contab + seguros
        outras_oper     == deprec + provisoes
        despesas_oper   == desp_comerciais + desp_adm + outras_oper
        ebit            == lucro_bruto - despesas_oper
        despesas_fin    == jur_pagos + iof + tarifas
        receitas_fin    == jur_receb + rend_apl
        lair            == ebit - despesas_fin + receitas_fin
        lucro_liq       == lair - ir_val - csll_val
    IN  [receita_bruta |-> receita_bruta, deducoes |-> deducoes,
         receita_liq |-> receita_liq, cpv_csv |-> cpv_csv,
         lucro_bruto |-> lucro_bruto, desp_comerciais |-> desp_comerciais,
         desp_adm |-> desp_adm, outras_oper |-> outras_oper,
         despesas_oper |-> despesas_oper, ebit |-> ebit,
         despesas_fin |-> despesas_fin, receitas_fin |-> receitas_fin,
         lair |-> lair, lucro_liq |-> lucro_liq]

\* the call of dre_from_inputs on the submitted form
DreOfForm(f) ==
    dre_from_inputs(f.vendas_prod, f.prest_serv, f.outras_rec,
                    f.devolucoes, f.descontos, f.imp_vendas,
                    f.cpv_prod, f.csv_serv, f.mao_obra,
                    f.comissoes, f.marketing, f.vendas,
                    f.sal_admin, f.aluguel, f.utilidades, f.mat_escr, f.contab, f.seguros,
                    f.deprec, f.provisoes,
                    f.jur_pagos, f.iof, f.tarifas, f.jur_receb, f.rend_apl,
                    f.ir_val, f.csll_val)

(***************************************************************************)
(* The submission handler (`if ok:`)                                       *)
(***************************************************************************)
\* (a / b * 100) if b else 0.0
MarginIf(a, b) == IF b # 0 THEN Rat(a * 100, b) ELSE Num(0)

\* MarginWhere dividing in every row
MarginWhere_NoGuard(a, b) == [i \in 1..Len(a) |-> Rat(a[i].v * 100, b[i].v)]

\* np.where(b > 0, a / b * 100, 0.0) on two columns
MarginWhere(a, b) ==
    [i \in 1..Len(a) |-> IF b[i].v > 0 THEN Rat(a[i].v * 100, b[i].v) ELSE Num(0)]

\* x < y for a ratio x (of positive denominator) and an integer y
RatLess(x, y) == x.v < y * x.q

\* pd.to_datetime(mes_ref) of the date mes_ref
ToTimestamp(mes_ref) == Ts(mes_ref.ym, mes_ref.d, 0)

\* the value of column c in row i
Val(df, c, i) == df.rows[i][ColIdx(df, c)].v

\* if "lucro_liq" not in db.columns:
\*     db["lucro_liq"] = db["receita_liq"] - db["cpv_csv"] - db["despesas"]
ApproxLucro(db) ==
    IF HasCol(db, "lucro_liq") THEN db
    ELSE SetCol(db, "lucro_liq",
                [i \in 1..Len(db.rows) |->
                    Num(Val(db, "receita_liq", i) - Val(db, "cpv_csv", i)
                        - Val(db, "despesas", i))])

\* db["entradas"] = np.where(db["entradas"]==0, db["receita_liq"], db["entradas"])
BackfillEntradas(db) ==
    SetCol(db, "entradas",
           [i \in 1..Len(db.rows) |->
               IF Val(db, "entradas", i) = 0
               THEN Num(Val(db, "receita_liq", i)) ELSE Num(Val(db, "entradas", i))])

\* db["saidas"] = np.where(db["saidas"]==0, db["cpv_csv"] + db["despesas"], db["saidas"])
BackfillSaidas(db) ==
    SetCol(db, "saidas",
           [i \in 1..Len(db.rows) |->
               IF Val(db, "saidas", i) = 0
               THEN Num(Val(db, "cpv_csv", i) + Val(db, "despesas", i))
               ELSE Num(Val(db, "saidas", i))])

\* db["delta_caixa"] = db["entradas"] - db["saidas"]
DeltaCaixa(db) ==
    SetCol(db, "delta_caixa",
           [i \in 1..Len(db.rows) |-> Num(Val(db, "entradas", i) - Val(db, "saidas", i))])

\* db["acumulado"] = db["delta_caixa"].cumsum()
Acumulado(db) == SetCol(db, "acumulado", cumsum(Col(db, "delta_caixa")))

\* db["margem_liq_pct"] = np.where(db["receita_liq"]>0, db["lucro_liq"]/db["receita_liq"]*100, 0.0)
MargemLiqPct(db) ==
    SetCol(db, "margem_liq_pct", MarginWhere(Col(db, "lucro_liq"), Col(db, "receita_liq")))

\* the history block: the history normalized again, its approximate result,
\* back-filled cash flow, delta, cumulative balance and margin
HistoryBase(h) ==
    MargemLiqPct(Acumulado(DeltaCaixa(BackfillSaidas(BackfillEntradas(
        ApproxLucro(ensure_history_df(h)))))))

\* pd.DataFrame(columns=[...]): the empty base
EmptyDb ==
    Frame(<<"mes", "receita_liq", "cpv_csv", "despesas", "lucro_liq",
            "entradas", "saidas", "delta_caixa", "acumulado",
            "orcado_receita", "orcado_despesas", "margem_liq_pct">>, <<>>)

\* the one-row frame of the current month
linha_atual(f, dre, entradas, saidas) ==
    Frame(<<"mes", "receita_liq", "cpv_csv", "despesas", "lucro_liq",
            "entradas", "saidas", "delta_caixa",
            "orcado_receita", "orcado_despesas">>,
          << <<ToTimestamp(f.mes_ref), Num(dre.receita_liq), Num(dre.cpv_csv),
               Num(dre.despesas_oper), Num(dre.lucro_liq),
               Num(entradas), Num(saidas), Num(entradas - saidas),
               Num(f.orcado_receita_mes), Num(f.orcado_despesas_mes)>> >>)

\* the column names of b that a lacks, in b's order
NewCols(a, b) == SelectSeq(b.cols, LAMBDA c : ~HasCol(a, c))

\* pd.concat([a, b], ignore_index=True): the union of the columns, a's first,
\* a cell of a column the frame lacks being NaN
concat(a, b) ==
    LET cols == a.cols \o NewCols(a, b)
        Fit(df) == [i \in 1..Len(df.rows) |->
                      [j \in 1..Len(cols) |->
                         IF HasCol(df, cols[j])
                         THEN df.rows[i][ColIdx(df, cols[j])] ELSE NaN]]
    IN  Frame(cols, Fit(a) \o Fit(b))

\* tail keeping the whole series
tail_All(s, n) == s

\* Series.tail(n)
tail(s, n) == IF Len(s) <= n THEN s ELSE SubSeq(s, Len(s) - n + 1, Len(s))

\* Series.mean() of a non-empty series of numbers
mean(s) == Rat(SumTo(s, Len(s)), Len(s))

\* db = db[db["mes"] != pd.to_datetime(mes_ref)]
DropMes(db, mes_ref) ==
    Frame(db.cols,
          SelectRows(db.rows,
                     [i \in 1..Len(db.rows) |-> Col(db, "mes")[i] # ToTimestamp(mes_ref)]))

\* if db.empty: db = linha_atual
\* else: db without the rows of mes_ref, then linha_atual appended
Upsert(db, atual, mes_ref) ==
    IF IsEmpty(db) THEN atual ELSE concat(DropMes(db, mes_ref), atual)

\* MergeCurrent back-filling the cash flow of every row after the merge
MergeCurrent_BackfillAll(db, atual, mes_ref) ==
    MargemLiqPct(Acumulado(DeltaCaixa(BackfillSaidas(BackfillEntradas(
        sort_values(Upsert(db, atual, mes_ref), "mes"))))))

\* MergeCurrent without the sort
MergeCurrent_NoSort(db, atual, mes_ref) ==
    MargemLiqPct(Acumulado(Upsert(db, atual, mes_ref)))

\* MergeCurrent with the cumulative balance taken before the sort
MergeCurrent_CumsumBeforeSort(db, atual, mes_ref) ==
    MargemLiqPct(sort_values(Acumulado(Upsert(db, atual, mes_ref)), "mes"))

\* db after `Registra/atualiza mês atual na base`, the sort, the cumulative
\* balance and the margin
MergeCurrent(db, atual, mes_ref) ==
    MargemLiqPct(Acumulado(sort_values(Upsert(db, atual, mes_ref), "mes")))

\* Alertas comparing the expenses with the budget also when the budget is 0
Alertas_NoBudgetGuard(margem_liq, limiar_margem, orcado_despesas_mes, despesas_oper, saldo_final) ==
    (IF RatLess(margem_liq, limiar_margem) THEN <<"margem">> ELSE <<>>)
    \o (IF despesas_oper > orcado_despesas_mes THEN <<"despesas">> ELSE <<>>)
    \o (IF saldo_final < 0 THEN <<"caixa">> ELSE <<>>)

\* Alertas reporting the first rule that matches only
Alertas_ElseIf(margem_liq, limiar_margem, orcado_despesas_mes, despesas_oper, saldo_final) ==
    IF RatLess(margem_liq, limiar_margem) THEN <<"margem">>
    ELSE IF orcado_despesas_mes > 0 /\ despesas_oper > orcado_despesas_mes
         THEN <<"despesas">>
         ELSE IF saldo_final < 0 THEN <<"caixa">> ELSE <<>>

\* the alerts, in the order the handler appends them
Alertas(margem_liq, limiar_margem, orcado_despesas_mes, despesas_oper, saldo_final) ==
    (IF RatLess(margem_liq, limiar_margem) THEN <<"margem">> ELSE <<>>)
    \o (IF orcado_despesas_mes > 0 /\ despesas_oper > orcado_despesas_mes
        THEN <<"despesas">> ELSE <<>>)
    \o (IF saldo_final < 0 THEN <<"caixa">> ELSE <<>>)

\* the projection of the expense (MM3)
ProjDespesa(db) ==
    IF Len(db.rows) >= 2 THEN mean(tail(Col(db, "despesas"), 3)) ELSE Num(0)

\* entradas = recebimentos + outras_ent
Entradas(f) == f.recebimentos + f.outras_ent

\* saidas = saidas_forn + salarios + impostos + outras_saidas + emprest_par
Saidas(f) == f.saidas_forn + f.salarios + f.impostos + f.outras_saidas + f.emprest_par

\* saldo_final without the opening balance
SaldoFinal_NoOpening(f) == Entradas(f) - Saidas(f)

\* saldo_final = saldo_inicial + entradas - saidas
SaldoFinal(f) == f.saldo_inicial + Entradas(f) - Saidas(f)

\* the base the current month is merged into: the history block when the
\* history is to be used and there is one, the empty base otherwise
BaseDb(h, f) ==
    IF f.considerar_hist /\ ~(h = None \/ IsEmpty(h)) THEN HistoryBase(h) ELSE EmptyDb

\* what the handler shows and exports, given the statement dre and the base db
Results(f, dre, db, alertas) ==
    [dre |-> dre, entradas |-> Entradas(f), saidas |-> Saidas(f),
     saldo_final |-> SaldoFinal(f),
     margem_bruta |-> MarginIf(dre.lucro_bruto, dre.receita_liq),
     margem_oper |-> MarginIf(dre.ebit, dre.receita_liq),
     margem_liq |-> MarginIf(dre.lucro_liq, dre.receita_liq),
     db |-> db, alertas |-> alertas,
     st_error |-> IF alertas # <<>> THEN alertas ELSE <<>>,
     st_success |-> IF alertas # <<>> THEN <<>> ELSE <<"Sem alertas no mes.">>,
     proj_despesa |-> ProjDespesa(db)]

\* the alerts of the form f whose statement is dre
AlertasOf(f, dre) ==
    Alertas(MarginIf(dre.lucro_liq, dre.receita_liq), f.limiar_margem,
            f.orcado_despesas_mes, dre.despesas_oper, SaldoFinal(f))

\* the handler, given the statement dre of the form f
CalcWith(h, f, dre) ==
    Results(f, dre,
            MergeCurrent(BaseDb(h, f), linha_atual(f, dre, Entradas(f), Saidas(f)),
                         f.mes_ref),
            AlertasOf(f, dre))

\* everything the handler computes from the uploaded history h and the form f
Calc(h, f) == CalcWith(h, f, DreOfForm(f))

(***************************************************************************)
(* Inputs                                                                  *)
(***************************************************************************)
\* the most rows an uploaded history has
MaxHist == 3

\* a date of the reference-month picker: day d of month ym
Date(ym, d) == [ym |-> ym, d |-> d]

\* the form as it opens: every amount 0.0, the threshold 10, the history used
Form0 ==
    [mes_ref |-> Date(1, 1),
     vendas_prod |-> 0, prest_serv |-> 0, outras_rec |-> 0,
     devolucoes |-> 0, descontos |-> 0, imp_vendas |-> 0,
     cpv_prod |-> 0, csv_serv |-> 0, mao_obra |-> 0,
     comissoes |-> 0, marketing |-> 0, vendas |-> 0,
     sal_admin |-> 0, aluguel |-> 0, utilidades |-> 0,
     mat_escr |-> 0, contab |-> 0, seguros |-> 0,
     deprec |-> 0, provisoes |-> 0,
     jur_pagos |-> 0, iof |-> 0, tarifas |-> 0, jur_receb |-> 0, rend_apl |-> 0,
     ir_val |-> 0, csll_val |-> 0,
     saldo_inicial |-> 0, recebimentos |-> 0, outras_ent |-> 0,
     saidas_forn |-> 0, salarios |-> 0, impostos |-> 0,
     outras_saidas |-> 0, emprest_par |-> 0,
     orcado_receita_mes |-> 0, orcado_despesas_mes |-> 0,
     limiar_margem |-> 10, considerar_hist |-> TRUE]

\* the reference dates tried: the first day of a month (the picker's default)
\* and a later day of one
RefDates == {Date(1, 1), Date(2, 1), Date(2, 15), Date(3, 1)}

\* the amounts tried in the merge: a profitable month whose cash flow is
\* negative, a month with no movement at all, a month with expenses only
FormAmounts ==
    { [Form0 EXCEPT !.vendas_prod = 1000, !.devolucoes = 100, !.cpv_prod = 400,
                    !.marketing = 300, !.jur_pagos = 20, !.ir_val = 50,
                    !.saldo_inicial = 100, !.recebimentos = 1200,
                    !.saidas_forn = 1500, !.orcado_receita_mes = 900,
                    !.orcado_despesas_mes = 250],
      Form0,
      [Form0 EXCEPT !.aluguel = 60, !.outras_ent = 70, !.orcado_despesas_mes = 80] }

\* the submissions tried: every amount at every reference date with the
\* history used, and every amount once with the history left out
Forms ==
    { [f EXCEPT !.mes_ref = r] : f \in FormAmounts, r \in RefDates }
    \cup
    { [f EXCEPT !.mes_ref = Date(2, 1), !.considerar_hist = FALSE] : f \in FormAmounts }

\* a row of an uploaded history in the canonical columns
HistRow(mes, receita_liq, cpv_csv, despesas, entradas, saidas, orc_rec, orc_desp) ==
    <<mes, Num(receita_liq), Num(cpv_csv), Num(despesas),
      Num(entradas), Num(saidas), Num(orc_rec), Num(orc_desp)>>

\* the rows tried: months 1 to 3 written YYYY-MM or YYYY/MM with the cash flow
\* given or left 0, a row whose month is no date, and a month without revenue
HistRows ==
    { HistRow(m, 100, 40, 30, 120, 150, 0, 0) :
        m \in {YmText("-", 1), YmText("/", 2), YmText("-", 3), JunkText} }
    \cup
    { HistRow(m, 200, 50, 90, 0, 0, 210, 80) :
        m \in {YmText("-", 1), YmText("/", 2), YmText("-", 3)} }
    \cup
    { HistRow(YmText("-", 2), 0, 10, 20, 0, 35, 0, 0) }

\* the frames over the columns cols whose rows are at most n of the rows R
FramesOf(cols, R, n) ==
    { Frame(cols, rows) : rows \in UNION { [1..k -> R] : k \in 0..n } }

\* the uploads tried: a history of at most MaxHist rows
Files == FramesOf(needed, HistRows, MaxHist)

(***************************************************************************)
(* The ledger page (pages/1_Fluxo_de_Caixa.py).  A transaction is a record *)
(* of the seven columns, a ledger frame the sequence of its rows; a date   *)
(* is day d of month number ym, month 1 being January 2024.                *)
(***************************************************************************)
MaxTx == 3

\* a missing text cell (NaN)
NA == "NaN"

\* the sessions of the page that are open
Sessions == {1, 2}

Tx(data, tipo, categoria, descricao, valor, conta, pago) ==
    [data |-> data, tipo |-> tipo, categoria |-> categoria, descricao |-> descricao,
     valor |-> valor, conta |-> conta, pago |-> pago]

\* the month of the year and the year of month number ym
MonthOf(ym) == ((ym - 1) % 12) + 1

YearOf(ym) == 2024 + ((ym - 1) \div 12)

\* the number of days of month number ym
DaysIn(ym) ==
    CASE MonthOf(ym) = 2 -> IF YearOf(ym) % 4 = 0 THEN 29 ELSE 28
      [] MonthOf(ym) \in {4, 6, 9, 11} -> 30
      [] OTHER -> 31

\* d + pd.DateOffset(months=k) stepping month by month from the last result
DateOffset_Stepwise(d, k) ==
    LET step[i \in 0..k] ==
            IF i = 0 THEN d
            ELSE Date(d.ym + i, IF step[i - 1].d < DaysIn(d.ym + i)
                                THEN step[i - 1].d ELSE DaysIn(d.ym + i))
    IN  step[k]

\* d + pd.DateOffset(months=k): the same day k months later, or the last day
\* of that month when it is shorter
DateOffset(d, k) ==
    Date(d.ym + k, IF d.d < DaysIn(d.ym + k) THEN d.d ELSE DaysIn(d.ym + k))

\* the order of the dates
DateKey(d) == d.ym * 100 + d.d

\* strftime("%d/%m/%Y"): the text DD/MM/YYYY
strftime(d) == [dd |-> d.d, mm |-> MonthOf(d.ym), yyyy |-> YearOf(d.ym)]

\* the date of a text NN/NN/YYYY read with dayfirst=True
parse_dayfirst(t) == Date((t.yyyy - 2024) * 12 + t.mm, t.dd)

\* a text cell as to_csv writes it: nothing for a missing value
WriteText(x) == IF x = NA THEN "" ELSE x

\* a text cell as read_csv reads it: an empty field is a missing value
ReadText(x) == IF x = "" THEN NA ELSE x

\* out.to_csv(DATA_PATH, index=False) after the dates are formatted
to_csv(rows) ==
    [i \in 1..Len(rows) |->
        [rows[i] EXCEPT !.data = strftime(rows[i].data),
                        !.categoria = WriteText(rows[i].categoria)]]

\* pd.read_csv(DATA_PATH, parse_dates=["data"], dayfirst=True)
read_csv(lines) ==
    [i \in 1..Len(lines) |->
        [lines[i] EXCEPT !.data = parse_dayfirst(lines[i].data),
                         !.categoria = ReadText(lines[i].categoria)]]

RECURSIVE InsertTx(_, _)
\* the sorted rows s with the row r after the rows that are not later
InsertTx(r, s) ==
    IF s = <<>> THEN <<r>>
    ELSE IF DateKey(Head(s).data) <= DateKey(r.data)
         THEN <<Head(s)>> \o InsertTx(r, Tail(s))
         ELSE <<r>> \o s

RECURSIVE SortTx(_)
\* df.sort_values("data")
SortTx(rows) ==
    IF rows = <<>> THEN <<>>
    ELSE InsertTx(rows[Len(rows)], SortTx(SubSeq(rows, 1, Len(rows) - 1)))

\* DATA_PATH does not exist
NoFile == [exists |-> FALSE, lines |-> <<>>]

\* DATA_PATH with the lines written
CsvFile(lines) == [exists |-> TRUE, lines |-> lines]

\* the cache of load_transacoes holds nothing
NoCache == [hit |-> FALSE, df |-> <<>>]

\* the cache of load_transacoes holds the frame df
Cached(df) == [hit |-> TRUE, df |-> df]

\* the body of load_transacoes: the file read and sorted by date, or the
\* empty frame when there is no file
ReadLedger(f) == IF f.exists THEN SortTx(read_csv(f.lines)) ELSE <<>>

\* load_transacoes(): the cached frame, or the body's result
load_transacoes(c, f) == IF c.hit THEN c.df ELSE ReadLedger(f)

\* the cache after load_transacoes()
CacheAfterLoad(c, f) == Cached(load_transacoes(c, f))

\* the description of the k-th row (k = 0, 1, ...) of a request of n months:
\* descricao_i, or f"{descricao_i} (M{k+1}/{meses_qtd})"
Descricao(descricao_i, k, n) ==
    IF k = 0 THEN [text |-> descricao_i, m |-> 0, of |-> 0]
    ELSE [text |-> descricao_i, m |-> k + 1, of |-> n]

\* linhas of the Adicionar handler
Linhas(f) ==
    IF f.recorrente
    THEN [j \in 1..f.meses_qtd |->
            Tx(DateOffset(f.data_i, j - 1), f.tipo_i, f.categoria_i,
               Descricao(f.descricao_i, j - 1, f.meses_qtd),
               f.valor_i, f.conta_i, f.pago_i)]
    ELSE <<Tx(f.data_i, f.tipo_i, f.categoria_i,
              Descricao(f.descricao_i, 0, f.meses_qtd),
              f.valor_i, f.conta_i, f.pago_i)>>

\* save_transacoes(df): the file it writes
save_transacoes(df) == CsvFile(to_csv(df))

\* the cache of load_transacoes left as it is by save_transacoes
CacheAfterSave_Kept(c) == c

\* load_transacoes.clear() at the end of save_transacoes
CacheAfterSave(c) == NoCache

RECURSIVE SumValor(_)
\* ["valor"].sum()
SumValor(rows) == IF rows = <<>> THEN 0 ELSE Head(rows).valor + SumValor(Tail(rows))

\* the rows of the type t
OfTipo(rows, t) == SelectSeq(rows, LAMBDA r : r.tipo = t)

\* the rows of the month m
OfMes(rows, m) == SelectSeq(rows, LAMBDA r : r.data.ym = m)

\* the rows of the category c
OfCategoria(rows, c) == SelectSeq(rows, LAMBDA r : r.categoria = c)

\* .groupby("ano_mes")["valor"].sum()
GroupMes(rows) ==
    [m \in {rows[i].data.ym : i \in 1..Len(rows)} |-> SumValor(OfMes(rows, m))]

\* .groupby("categoria")["valor"].sum(): groupby leaves out the rows whose
\* key is missing
GroupCategoria(rows) ==
    [c \in {rows[i].categoria : i \in 1..Len(rows)} \ {NA} |->
        SumValor(OfCategoria(rows, c))]

\* the value of the series s at m, 0 where it has none (fillna(0))
At0(s, m) == IF m \in DOMAIN s THEN s[m] ELSE 0

\* resumo: Entradas and Saidas by month, and their difference
resumo(f) ==
    [m \in DOMAIN GroupMes(OfTipo(f, "Receita")) \cup DOMAIN GroupMes(OfTipo(f, "Despesa")) |->
        [Entradas |-> At0(GroupMes(OfTipo(f, "Receita")), m),
         Saidas |-> At0(GroupMes(OfTipo(f, "Despesa")), m),
         Fluxo |-> At0(GroupMes(OfTipo(f, "Receita")), m)
                   - At0(GroupMes(OfTipo(f, "Despesa")), m)]]

\* despesas_cat: the expenses by category
despesas_cat(f) == GroupCategoria(OfTipo(f, "Despesa"))

\* the largest and the smallest of the numbers S
MaxOf(S) == CHOOSE x \in S : \A y \in S : y <= x

MinOf(S) == CHOOSE x \in S : \A y \in S : x <= y

\* the four metrics of the months with most and least Saidas and Entradas,
\* shown when resumo is not empty: their amounts
Destaques(r) ==
    IF DOMAIN r = {} THEN [shown |-> FALSE, mais_conta |-> 0, menos_conta |-> 0,
                           mais_ganho |-> 0, menos_ganho |-> 0]
    ELSE [shown |-> TRUE,
          mais_conta |-> MaxOf({r[m].Saidas : m \in DOMAIN r}),
          menos_conta |-> MinOf({r[m].Saidas : m \in DOMAIN r}),
          mais_ganho |-> MaxOf({r[m].Entradas : m \in DOMAIN r}),
          menos_ganho |-> MinOf({r[m].Entradas : m \in DOMAIN r})]

\* the options of a filter selectbox: the values of the column, none missing
Options(df, col) == {df[i][col] : i \in 1..Len(df)} \ {NA}

\* the value of a filter selectbox: the selection, or "(todas)" (index 0)
\* when the selection is no option any more
Selected(df, col, sel) == IF sel \in Options(df, col) THEN sel ELSE "(todas)"

\* the first and the last day of the date filter: the widgets open on the
\* earliest and the latest date of the ledger
Ini(df, flt) == IF flt.datas = "default" THEN df[1].data ELSE flt.ini

Fim(df, flt) == IF flt.datas = "default" THEN df[Len(df)].data ELSE flt.fim

\* f: the rows of df the filters select
Filtrar(df, flt) ==
    SelectSeq(df, LAMBDA r :
        /\ DateKey(r.data) >= DateKey(Ini(df, flt))
        /\ DateKey(r.data) <= DateKey(Fim(df, flt))
        /\ r.tipo \in flt.tipo_sel
        /\ Selected(df, "conta", flt.conta_sel) \in {"(todas)", r.conta}
        /\ Selected(df, "categoria", flt.cat_sel) \in {"(todas)", r.categoria})

\* no message
NoMsg == [kind |-> "none", n |-> 0]

\* what a run of the page shows below the editor when the ledger is empty:
\* the notice "Sem lancamentos ainda" and nothing else
ViewEmpty(msg) ==
    [msg |-> msg, sem_lancamentos |-> TRUE, resumo_built |-> FALSE, resumo |-> <<>>,
     destaques |-> Destaques(<<>>), charts |-> FALSE, despesas_cat |-> <<>>,
     sem_despesas |-> FALSE, filtrados |-> <<>>]

\* what a run of the page shows for the filtered rows f: the summary by
\* month, the metrics, the charts, the expenses by category or the notice
\* "Sem despesas no periodo filtrado", and the filtered rows
ViewOf(f, msg) ==
    [msg |-> msg, sem_lancamentos |-> FALSE, resumo_built |-> TRUE, resumo |-> resumo(f),
     destaques |-> Destaques(resumo(f)), charts |-> TRUE,
     despesas_cat |-> despesas_cat(f),
     sem_despesas |-> (DOMAIN despesas_cat(f) = {}),
     filtrados |-> SortTx(f)]

\* the part of the page from the filters on (lines 114-202)
Render(df, flt, msg) ==
    IF df = <<>> THEN ViewEmpty(msg) ELSE ViewOf(Filtrar(df, flt), msg)

\* the filters as the page opens them: every date, type, account, category
FilterAll ==
    [datas |-> "default", ini |-> Date(1, 1), fim |-> Date(1, 1),
     tipo_sel |-> {"Receita", "Despesa"}, conta_sel |-> "(todas)", cat_sel |-> "(todas)"]

\* the values of the "Novo lancamento" widgets
AddForm(data_i, tipo_i, categoria_i, valor_i, descricao_i, recorrente, meses_qtd) ==
    [data_i |-> data_i, tipo_i |-> tipo_i, categoria_i |-> categoria_i,
     valor_i |-> valor_i, descricao_i |-> descricao_i, conta_i |-> "Geral",
     pago_i |-> TRUE, recorrente |-> recorrente, meses_qtd |-> meses_qtd]

\* the "Novo lancamento" widgets as the page opens them
AddForm0 == AddForm(Date(1, 1), "Receita", "Aluguel", 0, "", FALSE, 1)

\* a session between two runs of the script: req holds its "Novo
\* lancamento" widgets, filt its filter widgets
IdleSession(req, flt) ==
    [pc |-> "idle", df |-> <<>>, linhas |-> <<>>, req |-> req, filt |-> flt]

\* the ledger page after each session has opened it on a new installation
LedgerInit ==
    /\ csv = NoFile
    /\ cache = Cached(ReadLedger(NoFile))
    /\ ses = [s \in Sessions |-> IdleSession(AddForm0, FilterAll)]
    /\ view = [s \in Sessions |-> Render(<<>>, FilterAll, NoMsg)]

(***************************************************************************)
(* The page                                                                *)
(***************************************************************************)
\* nothing computed: the run was not started by the submit button
NoOut == [ok |-> FALSE]

Init ==
    /\ file = None
    /\ hist_df = ensure_history_df(None)
    /\ pc = "idle"
    /\ form = Form0
    /\ out = NoOut
    /\ LedgerInit

\* the user uploads the history file f: the script reruns and normalizes it;
\* nothing is computed, the run having no submission; an exception of the
\* normalizer ends the run before the form is drawn
Upload(f) ==
    /\ pc = "idle"
    /\ file = None
    /\ file' = f
    /\ hist_df' = ensure_history_df(f)
    /\ pc' = IF hist_df' = Exception THEN "raised" ELSE pc
    /\ UNCHANGED <<form, out>>
    /\ UNCHANGED lvars

\* the user removes the uploaded file: the script reruns without a history
Remove ==
    /\ pc \in {"idle", "raised"}
    /\ pc' = "idle"
    /\ file # None
    /\ file' = None
    /\ hist_df' = ensure_history_df(None)
    /\ UNCHANGED <<form, out>>
    /\ UNCHANGED lvars

\* the user submits the form with the values f: the script reruns, reads and
\* normalizes the file again and runs the handler
Submit(f) ==
    /\ pc = "idle"
    /\ form' = f
    /\ hist_df' = ensure_history_df(file)
    /\ out' = [ok |-> TRUE] @@ Calc(hist_df', f)
    /\ pc' = "done"
    /\ UNCHANGED file
    /\ UNCHANGED lvars

\* any later interaction reruns the script without a submission: the
\* results and the submitted values are gone, the file stays
Rerun ==
    /\ pc = "done"
    /\ pc' = "idle"
    /\ out' = NoOut
    /\ hist_df' = ensure_history_df(file)
    /\ form' = Form0
    /\ UNCHANGED file
    /\ UNCHANGED lvars

UploadAny == \E f \in Files : Upload(f)

SubmitAny == \E f \in Forms : Submit(f)

Next == UploadAny \/ Remove \/ SubmitAny \/ Rerun

Spec == Init /\ [][Next]_vars

(***************************************************************************)
(* The statement calculator on its own                                     *)
(***************************************************************************)
\* the 27 inputs of dre_from_inputs
DreFields ==
    {"vendas_prod", "prest_serv", "outras_rec", "devolucoes", "descontos",
     "imp_vendas", "cpv_prod", "csv_serv", "mao_obra", "comissoes", "marketing",
     "vendas", "sal_admin", "aluguel", "utilidades", "mat_escr", "contab",
     "seguros", "deprec", "provisoes", "jur_pagos", "iof", "tarifas",
     "jur_receb", "rend_apl", "ir_val", "csll_val"}

\* the scenario of the specification: gross 10000, deductions 1000, cost
\* 4000, operating expenses 3000, financial expense 200 and income 100,
\* tax 500
ScenarioForm ==
    [Form0 EXCEPT !.vendas_prod = 10000, !.devolucoes = 1000, !.cpv_prod = 4000,
                  !.comissoes = 1000, !.sal_admin = 1500, !.deprec = 500,
                  !.jur_pagos = 200, !.jur_receb = 100, !.ir_val = 500]

\* the inputs tried: the scenario, and every choice of two inputs and of
\* their amounts, the other inputs being 0
DreForms ==
    {ScenarioForm}
    \cup { [Form0 EXCEPT ![a] = x, ![b] = y] :
              a \in DreFields, b \in DreFields, x \in {0, 7, 500}, y \in {40, 500} }

InitDre ==
    /\ file = None
    /\ hist_df = ensure_history_df(None)
    /\ pc = "dre"
    /\ form \in DreForms
    /\ out = NoOut
    /\ LedgerInit

\* the call of dre_from_inputs on the inputs
DreRun ==
    /\ pc = "dre"
    /\ pc' = "dre_done"
    /\ out' = [ok |-> TRUE, dre |-> DreOfForm(form)]
    /\ UNCHANGED <<file, hist_df, form>>
    /\ UNCHANGED lvars

NextDre == DreRun

SpecDre == InitDre /\ [][NextDre]_vars

(***************************************************************************)
(* The page with the inputs the alerts depend on                           *)
(***************************************************************************)
\* the submissions tried for the alerts: with and without revenue, a net
\* result above and below zero, thresholds 0, 10 and 50, the budget unset or
\* 500, and cash flows that end above and below zero
AlertForms ==
    { [Form0 EXCEPT !.vendas_prod = v, !.cpv_prod = 400, !.marketing = m,
                    !.limiar_margem = l, !.orcado_despesas_mes = o,
                    !.saldo_inicial = s, !.saidas_forn = p] :
        v \in {0, 1000}, m \in {300, 700}, l \in {0, 10, 50}, o \in {0, 500},
        s \in {0, 400}, p \in {0, 300} }

\* the uploads tried for the alerts: a history month within its budget, and
\* one whose expenses are above its budget
AlertFiles ==
    { Frame(needed, <<HistRow(YmText("-", 1), 100, 40, 30, 120, 150, 0, 900)>>),
      Frame(needed, <<HistRow(YmText("-", 1), 200, 50, 90, 0, 0, 210, 80)>>) }

UploadAlert == \E f \in AlertFiles : Upload(f)

SubmitAlert == \E f \in AlertForms : Submit(f)

NextAlert == UploadAlert \/ Remove \/ SubmitAlert \/ Rerun

SpecAlert == Init /\ [][NextAlert]_vars

(***************************************************************************)
(* The page with the inputs the cash alert depends on                      *)
(***************************************************************************)
\* the submissions tried for the cash alert: February, opened with a cash
\* balance of 0 or 400, receipts 0 or 1200, payments 0, 1000 or 1500, with
\* and without the history
CashForms ==
    { [Form0 EXCEPT !.mes_ref = r, !.saldo_inicial = s, !.recebimentos = e,
                    !.saidas_forn = p, !.considerar_hist = c] :
        r \in {Date(2, 1), Date(2, 15)}, s \in {0, 400}, e \in {0, 1200},
        p \in {0, 1000, 1500}, c \in BOOLEAN }

\* the uploads tried for the cash alert: a January that ends above zero
\* (inflow 1000, outflow 800), and one that ends below (inflow 100)
CashFiles ==
    { Frame(needed, <<HistRow(YmText("-", 1), 1500, 600, 300, e, 800, 0, 0)>>) :
        e \in {1000, 100} }

NextCash ==
    \/ \E f \in CashFiles : Upload(f)
    \/ Remove
    \/ \E f \in CashForms : Submit(f)
    \/ Rerun

SpecCash == Init /\ [][NextCash]_vars

(***************************************************************************)
(* ensure_history_df on raw uploads                                        *)
(***************************************************************************)
MaxRaw == 2

\* the raw rows tried in the canonical columns: the month written YYYY-MM or
\* YYYY/MM, no date or missing; the revenue a number, a text or missing
RawRows ==
    { <<m, x, Num(40), Num(30), Num(0), Num(0), Num(0), Num(0)>> :
        m \in {YmText("-", 2), YmText("/", 1), JunkText, NaN},
        x \in {Num(100), Txt, NaN} }

\* the raw uploads tried: the canonical columns; alias names written with
\* blanks and capitals and columns missing; the cost of products and the
\* cost of services in a column each (both are aliases of cpv_csv); no
\* month column at all
RawFiles ==
    FramesOf(needed, RawRows, MaxRaw)
    \cup FramesOf(<<" Mes ", "RECEITA", "CPV ", "despesas">>,
                  { <<m, Num(100), Num(40), Txt>> : m \in {YmText("-", 1), JunkText} },
                  MaxRaw)
    \cup FramesOf(<<"mes", "cpv", "csv">>, { <<YmText("-", 1), Num(40), Num(60)>> }, MaxRaw)
    \cup FramesOf(<<"receita_liq">>, { <<Num(100)>> }, MaxRaw)
    \cup {None}

InitNorm ==
    /\ file \in RawFiles
    /\ hist_df = None
    /\ pc = "norm"
    /\ form = Form0
    /\ out = NoOut
    /\ LedgerInit

\* the call of ensure_history_df on the upload
NormRun ==
    /\ pc = "norm"
    /\ hist_df' = ensure_history_df(file)
    /\ pc' = IF hist_df' = Exception THEN "raised" ELSE "norm_done"
    /\ UNCHANGED <<file, form, out>>
    /\ UNCHANGED lvars

NextNorm == NormRun

SpecNorm == InitNorm /\ [][NextNorm]_vars

(***************************************************************************)
(* The page with histories that carry their own net result                 *)
(***************************************************************************)
\* the rows tried: a month with its revenue, cost, expenses and cash flow,
\* and a net result of its own that is not revenue - cost - expenses
LucroRows ==
    { HistRow(YmText("-", 1), 100, 40, 30, 120, 150, 0, 0) \o <<Num(5)>>,
      HistRow(YmText("-", 3), 200, 50, 90, 0, 0, 210, 80) \o <<Num(7)>>,
      HistRow(YmText("/", 2), 0, 10, 20, 0, 35, 0, 0) \o <<Num(99)>> }

\* the uploads tried: the canonical columns and the column lucro_liq
LucroFiles == FramesOf(needed \o <<"lucro_liq">>, LucroRows, MaxRaw)

NextLucro ==
    \/ \E f \in LucroFiles : Upload(f)
    \/ Remove
    \/ SubmitAny
    \/ Rerun

SpecLucro == Init /\ [][NextLucro]_vars

(***************************************************************************)
(* The ledger page: its runs                                               *)
(***************************************************************************)
\* the numbers of months tried
MesesQtd == {1, 2, 3}

\* the requests tried: a rent on the last day of January, a marketing
\* expense on 12 January, a sale in February; each once or monthly
AddForms ==
    { AddForm(Date(1, 31), "Despesa", "Aluguel", 50, "aluguel", r, n) :
        r \in BOOLEAN, n \in MesesQtd }
    \cup { AddForm(Date(1, 12), "Despesa", "Marketing", 70, "anuncio", FALSE, 1),
           AddForm(Date(2, 10), "Receita", "Vendas", 200, "pedido", FALSE, 1) }

\* the rows typed into the editor: an expense whose category is left empty,
\* and an expense paid from another account
EditorRows ==
    { Tx(Date(1, 20), "Despesa", NA, Descricao("taxa", 0, 1), 30, "Geral", TRUE),
      Tx(Date(2, 5), "Despesa", "Marketing", Descricao("feira", 0, 1), 20, "Banco", TRUE) }

\* the frame without its i-th row
DeleteAt(df, i) == SubSeq(df, 1, i - 1) \o SubSeq(df, i + 1, Len(df))

\* the frames the editor can return for the frame df: a row deleted, or a
\* row typed in below the others
Edits(df) ==
    { DeleteAt(df, i) : i \in 1..Len(df) }
    \cup { Append(df, r) : r \in {x \in EditorRows : Len(df) < MaxTx} }

\* the filters tried: everything, no type, expenses only, the category
\* Aluguel, the month of February
Filters ==
    { FilterAll,
      [FilterAll EXCEPT !.tipo_sel = {}],
      [FilterAll EXCEPT !.tipo_sel = {"Despesa"}],
      [FilterAll EXCEPT !.cat_sel = "Aluguel"],
      [FilterAll EXCEPT !.datas = "custom", !.ini = Date(2, 1), !.fim = Date(2, 29)] }

\* the frame the Adicionar handler of session s saves: the frame it loaded
\* and the current ledger, each row once, with its new rows below
AddedFrame_Merged(s) ==
    load_transacoes(cache, csv)
    \o SelectSeq(ses[s].df, LAMBDA r : \A i \in 1..Len(load_transacoes(cache, csv)) :
                                          load_transacoes(cache, csv)[i] # r)
    \o ses[s].linhas

\* the frame the Adicionar handler of session s saves:
\* pd.concat([df, novo], ignore_index=True)
AddedFrame(s) == ses[s].df \o ses[s].linhas

\* the rest of a run of session s after it has saved the file f: the ledger
\* is loaded again (the cache is empty) and the page is drawn with it
AfterSave(s, f, msg) ==
    /\ csv' = f
    /\ cache' = CacheAfterLoad(CacheAfterSave(cache), f)
    /\ view' = [view EXCEPT ![s] = Render(load_transacoes(CacheAfterSave(cache), f),
                                          ses[s].filt, msg)]
    /\ ses' = [ses EXCEPT ![s] = IdleSession(ses[s].req, ses[s].filt)]

\* "Adicionar" is clicked in session s with the values f: the handler loads
\* the ledger and builds the new rows
AddLoad(s, f) ==
    /\ ses[s].pc = "idle"
    /\ Len(load_transacoes(cache, csv)) + Len(Linhas(f)) <= MaxTx
    /\ ses' = [ses EXCEPT ![s] = [pc |-> "adding", df |-> load_transacoes(cache, csv),
                                  linhas |-> Linhas(f), req |-> f,
                                  filt |-> ses[s].filt]]
    /\ cache' = CacheAfterLoad(cache, csv)
    /\ UNCHANGED <<csv, view>>
    /\ UNCHANGED <<file, hist_df, pc, form, out>>

\* the handler of session s saves the loaded frame with the new rows; the
\* run goes on to the end of the page
AddSave(s) ==
    /\ ses[s].pc = "adding"
    /\ AfterSave(s, save_transacoes(AddedFrame(s)),
                 [kind |-> "adicionados", n |-> Len(ses[s].linhas)])
    /\ UNCHANGED <<file, hist_df, pc, form, out>>

\* "Salvar alteracoes" is clicked in session s, the editor holding e
SaveEdits(s, e) ==
    /\ ses[s].pc = "idle"
    /\ e \in Edits(load_transacoes(cache, csv))
    /\ AfterSave(s, save_transacoes(e), [kind |-> "salvos", n |-> Len(e)])
    /\ UNCHANGED <<file, hist_df, pc, form, out>>

\* "Apagar todos os lancamentos" is clicked in session s
ClearAll(s) ==
    /\ ses[s].pc = "idle"
    /\ AfterSave(s, save_transacoes(<<>>), [kind |-> "zerada", n |-> 0])
    /\ UNCHANGED <<file, hist_df, pc, form, out>>

\* a filter widget is changed in session s: the script reruns
SetFilter(s, flt) ==
    /\ ses[s].pc = "idle"
    /\ ses' = [ses EXCEPT ![s].filt = flt]
    /\ cache' = CacheAfterLoad(cache, csv)
    /\ view' = [view EXCEPT ![s] = Render(load_transacoes(cache, csv), flt, NoMsg)]
    /\ UNCHANGED csv
    /\ UNCHANGED <<file, hist_df, pc, form, out>>

InitLedger ==
    /\ file = None
    /\ hist_df = ensure_history_df(None)
    /\ pc = "ledger"
    /\ form = Form0
    /\ out = NoOut
    /\ LedgerInit

\* one session on the ledger page
NextLedger ==
    \/ \E f \in AddForms : AddLoad(1, f)
    \/ AddSave(1)
    \/ \E e \in Edits(load_transacoes(cache, csv)) : SaveEdits(1, e)
    \/ ClearAll(1)
    \/ \E flt \in Filters : SetFilter(1, flt)

SpecLedger == InitLedger /\ [][NextLedger]_vars

\* the requests tried with two sessions: a rent, monthly for two months, and
\* a sale
WriterForms ==
    { AddForm(Date(1, 31), "Despesa", "Aluguel", 50, "aluguel", TRUE, 2),
      AddForm(Date(2, 10), "Receita", "Vendas", 200, "pedido", FALSE, 1) }

\* two sessions on the ledger page, each adding transactions, their runs
\* interleaved
NextWriters ==
    \/ \E s \in Sessions : \E f \in WriterForms : AddLoad(s, f)
    \/ \E s \in Sessions : AddSave(s)

SpecWriters == InitLedger /\ [][NextWriters]_vars

(***************************************************************************)
(* Properties                                                              *)
(***************************************************************************)
\* the handler has run on a submission
Done == pc = "done"

\* the derived series of the submission
Db == out.db

\* the number of rows of the derived series
NRows == Len(out.db.rows)

\* the rows of the frame df whose Timestamp lies in the calendar month ym
RowsOfMonth(df, ym) == {i \in 1..Len(df.rows) : Col(df, "mes")[i].ym = ym}

\* the rows of the derived series that hold the submitted reference date
CurRows == {i \in 1..NRows : Col(Db, "mes")[i] = ToTimestamp(form.mes_ref)}

\* the history was merged: it was to be used and the upload had a row
HistUsed == form.considerar_hist /\ ~IsEmpty(hist_df)

\* row i of the derived series holds the amounts of the submission
IsSubmitted(i) ==
    /\ Val(Db, "receita_liq", i) = out.dre.receita_liq
    /\ Val(Db, "cpv_csv", i) = out.dre.cpv_csv
    /\ Val(Db, "despesas", i) = out.dre.despesas_oper
    /\ Val(Db, "lucro_liq", i) = out.dre.lucro_liq
    /\ Val(Db, "entradas", i) = form.recebimentos + form.outras_ent
    /\ Val(Db, "orcado_despesas", i) = form.orcado_despesas_mes

\* C1: a submission for a calendar month that has one row in the uploaded
\* history replaces that row: the series is as long as the history and its
\* only row of that month holds the submitted amounts.
C1_ReplacesExistingPeriod ==
    (Done /\ HistUsed /\ Cardinality(RowsOfMonth(hist_df, form.mes_ref.ym)) = 1)
    => /\ NRows = Len(hist_df.rows)
       /\ Cardinality(RowsOfMonth(Db, form.mes_ref.ym)) = 1
       /\ \A i \in RowsOfMonth(Db, form.mes_ref.ym) : IsSubmitted(i)

\* C2: after the merge the series has at most one row per calendar month.
C2_OneRowPerPeriod ==
    Done => \A i, j \in 1..NRows :
               Col(Db, "mes")[i].ym = Col(Db, "mes")[j].ym => i = j

\* C3: the derived series is in ascending period order and its cumulative
\* balance is the running sum of the net cash deltas: the first row's balance
\* is its delta and every later row's is the previous balance plus its delta.
C3_SortedPrefixSum ==
    Done =>
       /\ NRows >= 1
       /\ \A i \in 1..(NRows - 1) :
             /\ Col(Db, "mes")[i].ym <= Col(Db, "mes")[i + 1].ym
             /\ TsKey(Col(Db, "mes")[i]) <= TsKey(Col(Db, "mes")[i + 1])
       /\ Col(Db, "acumulado")[1] = Num(Val(Db, "delta_caixa", 1))
       /\ \A i \in 2..NRows :
             Col(Db, "acumulado")[i]
                = Num(Val(Db, "acumulado", i - 1) + Val(Db, "delta_caixa", i))

\* C3 witness: the current period was inserted between two history rows of
\* other months, all with a non-zero delta
C3_Witness ==
    /\ Done
    /\ NRows >= 3
    /\ \E i \in 2..(NRows - 1) :
          /\ i \in CurRows
          /\ Col(Db, "mes")[i - 1].ym < form.mes_ref.ym
          /\ Col(Db, "mes")[i + 1].ym > form.mes_ref.ym
          /\ Val(Db, "delta_caixa", i) # 0
          /\ Val(Db, "delta_caixa", i - 1) # 0

\* C4: the statement calculator returns net revenue = max(gross revenue -
\* deductions, 0), gross profit = net revenue - cost, operating result =
\* gross profit - (commercial + administrative + other operating expenses),
\* pre-tax result = operating result - financial expenses + financial income,
\* net result = pre-tax result - income tax - social contribution, every
\* total being the sum of its inputs; the scenario gives 9000, 5000, 2000,
\* 1900 and 1400.
C4_StatementFormulas ==
    pc = "dre_done" =>
       LET r == out.dre
           f == form
           gross == f.vendas_prod + f.prest_serv + f.outras_rec
           ded   == f.devolucoes + f.descontos + f.imp_vendas
       IN  /\ r.receita_bruta = gross
           /\ r.deducoes = ded
           /\ r.receita_liq = (IF gross >= ded THEN gross - ded ELSE 0)
           /\ r.cpv_csv = f.cpv_prod + f.csv_serv + f.mao_obra
           /\ r.lucro_bruto = r.receita_liq - r.cpv_csv
           /\ r.desp_comerciais = f.comissoes + f.marketing + f.vendas
           /\ r.desp_adm = f.sal_admin + f.aluguel + f.utilidades
                           + f.mat_escr + f.contab + f.seguros
           /\ r.outras_oper = f.deprec + f.provisoes
           /\ r.despesas_oper = r.desp_comerciais + r.desp_adm + r.outras_oper
           /\ r.ebit = r.lucro_bruto - (r.desp_comerciais + r.desp_adm + r.outras_oper)
           /\ r.despesas_fin = f.jur_pagos + f.iof + f.tarifas
           /\ r.receitas_fin = f.jur_receb + f.rend_apl
           /\ r.lair = r.ebit - r.despesas_fin + r.receitas_fin
           /\ r.lucro_liq = r.lair - f.ir_val - f.csll_val
           /\ (f = ScenarioForm =>
                 /\ r.receita_liq = 9000
                 /\ r.lucro_bruto = 5000
                 /\ r.ebit = 2000
                 /\ r.lair = 1900
                 /\ r.lucro_liq = 1400)

\* C4 witness: the calculator has run on inputs whose deductions exceed the
\* gross revenue, so that the floor decides the net revenue
C4_Witness ==
    /\ pc = "dre_done"
    /\ form.devolucoes > form.vendas_prod + form.prest_serv + form.outras_rec
    /\ form.cpv_prod > 0
    /\ out.dre.receita_liq = 0
    /\ out.dre.lucro_liq < 0

\* C5: normalizing a normalized history changes nothing: the second
\* normalization of the uploaded history equals the first.
C5_NormalizeIdempotent ==
    ensure_history_df(ensure_history_df(file)) = ensure_history_df(file)

\* the margin m is the ratio net result / net revenue * 100 of a row, or
\* exactly 0 when the net revenue is 0; its denominator is never 0
IsNetMargin(m, lucro, receita) ==
    /\ m.k = "num"
    /\ m.q # 0
    /\ (receita = 0 => m.v = 0)
    /\ (receita > 0 => m.v * receita = lucro * 100 * m.q)

\* C6: in every row of the derived series and in the current period's KPI
\* the net margin is exactly 0 when the net revenue is 0, whatever the net
\* result, no margin divides by zero, and with a positive net revenue the
\* net margin is net result / net revenue * 100.
C6_MarginZeroWhenNoRevenue ==
    Done =>
       /\ \A i \in 1..NRows :
             IsNetMargin(Col(Db, "margem_liq_pct")[i],
                         Val(Db, "lucro_liq", i), Val(Db, "receita_liq", i))
       /\ IsNetMargin(out.margem_liq, out.dre.lucro_liq, out.dre.receita_liq)
       /\ out.margem_bruta.q # 0
       /\ out.margem_oper.q # 0

\* C6 witness: a history row and the current period both without revenue
\* and with a negative net result
C6_Witness ==
    /\ Done
    /\ out.dre.receita_liq = 0
    /\ out.dre.lucro_liq < 0
    /\ out.margem_liq = Num(0)
    /\ \E i \in 1..NRows :
          /\ i \notin CurRows
          /\ Val(Db, "receita_liq", i) = 0
          /\ Val(Db, "lucro_liq", i) < 0
          /\ Col(Db, "margem_liq_pct")[i] = Num(0)

\* C7: the expense projection is 0 when the series has fewer than 2 rows,
\* the mean of the operating expenses of its 2 rows when it has 2, and the
\* mean of those of its last 3 rows when it has 3 or more.
C7_ProjectionWindow ==
    Done =>
       /\ (NRows < 2 => out.proj_despesa = Num(0))
       /\ (NRows = 2 =>
             out.proj_despesa = Rat(Val(Db, "despesas", 1) + Val(Db, "despesas", 2), 2))
       /\ (NRows >= 3 =>
             out.proj_despesa
                = Rat(Val(Db, "despesas", NRows - 2) + Val(Db, "despesas", NRows - 1)
                      + Val(Db, "despesas", NRows), 3))

\* C7 witness: a series of 4 rows whose first row has expenses the
\* projection leaves out
C7_Witness ==
    /\ Done
    /\ NRows = 4
    /\ Val(Db, "despesas", 1) > 0
    /\ out.proj_despesa.q = 3

\* the current period is among the last 3 rows of the derived series
CurInWindow == \E i \in CurRows : i > NRows - 3

\* the rows of the derived series dated after the reference date
LaterRows ==
    {i \in 1..NRows : TsKey(Col(Db, "mes")[i]) > TsKey(ToTimestamp(form.mes_ref))}

IsBackfilled(i, j) ==
    /\ Col(Db, "mes")[i].ym = Col(hist_df, "mes")[j].ym
    /\ Val(Db, "receita_liq", i) = Val(hist_df, "receita_liq", j)
    /\ Val(Db, "cpv_csv", i) = Val(hist_df, "cpv_csv", j)
    /\ Val(Db, "despesas", i) = Val(hist_df, "despesas", j)
    /\ Val(Db, "entradas", i)
          = (IF Val(hist_df, "entradas", j) = 0 THEN Val(hist_df, "receita_liq", j)
             ELSE Val(hist_df, "entradas", j))
    /\ Val(Db, "saidas", i)
          = (IF Val(hist_df, "saidas", j) = 0
             THEN Val(hist_df, "cpv_csv", j) + Val(hist_df, "despesas", j)
             ELSE Val(hist_df, "saidas", j))
    /\ Val(Db, "delta_caixa", i) = Val(Db, "entradas", i) - Val(Db, "saidas", i)

\* C9: the current period's row keeps the inflow, outflow and delta of the
\* cash-flow inputs, also when they are 0; every other row is a history row
\* whose zero inflow or outflow was substituted before its delta was taken.
C9_BackfillHistoryOnly ==
    Done =>
       /\ CurRows # {}
       /\ \A i \in CurRows :
             /\ Val(Db, "entradas", i) = form.recebimentos + form.outras_ent
             /\ Val(Db, "saidas", i)
                   = form.saidas_forn + form.salarios + form.impostos
                     + form.outras_saidas + form.emprest_par
             /\ Val(Db, "delta_caixa", i) = Val(Db, "entradas", i) - Val(Db, "saidas", i)
       /\ \A i \in (1..NRows) \ CurRows :
             \E j \in 1..Len(hist_df.rows) : IsBackfilled(i, j)

\* C9 witness: the current row has no outflow although it has expenses, and
\* a history row without inflow got its net revenue as inflow
C9_Witness ==
    /\ Done
    /\ \E i \in CurRows :
          /\ Val(Db, "saidas", i) = 0
          /\ Val(Db, "despesas", i) > 0
    /\ \E i \in (1..NRows) \ CurRows :
          \E j \in 1..Len(hist_df.rows) :
             /\ IsBackfilled(i, j)
             /\ Val(hist_df, "entradas", j) = 0
             /\ Val(Db, "entradas", i) > 0

\* the alerts raised, as a set
Raised == {out.alertas[i] : i \in 1..Len(out.alertas)}

\* the place of an alert in the fixed order
Rank(a) == CASE a = "margem" -> 1 [] a = "despesas" -> 2 [] a = "caixa" -> 3

\* C10: the alerts are exactly the rules that hold, each on its own: net
\* margin % < threshold, budgeted expenses > 0 and operating expenses above
\* them, ending cash balance < 0; they come in that order; "no alerts" is
\* shown if and only if there is none.
C10_AlertsExactlyMatchingRules ==
    Done =>
       LET receita == out.dre.receita_liq
           lucro   == out.dre.lucro_liq
           saldo   == form.saldo_inicial + form.recebimentos + form.outras_ent
                      - (form.saidas_forn + form.salarios + form.impostos
                         + form.outras_saidas + form.emprest_par)
       IN  /\ Raised \subseteq {"margem", "despesas", "caixa"}
           /\ "margem" \in Raised
                 <=> (IF receita > 0 THEN lucro * 100 < form.limiar_margem * receita
                      ELSE 0 < form.limiar_margem)
           /\ "despesas" \in Raised
                 <=> (form.orcado_despesas_mes > 0
                      /\ out.dre.despesas_oper > form.orcado_despesas_mes)
           /\ "caixa" \in Raised <=> saldo < 0
           /\ \A i, j \in 1..Len(out.alertas) :
                 i < j => Rank(out.alertas[i]) < Rank(out.alertas[j])
           /\ out.st_error = out.alertas
           /\ (out.st_success # <<>>) <=> (out.alertas = <<>>)

\* C10 witness: the three rules hold at once and the three alerts are shown
C10_Witness ==
    /\ Done
    /\ out.st_error = <<"margem", "despesas", "caixa">>
    /\ out.st_success = <<>>

\* C11: when the budgeted expenses of the submission are 0 the overspend
\* alert is not raised, whatever the operating expenses of the submission
\* and the budgeted expenses of the history rows.
C11_NoOverspendAlertWithoutBudget ==
    (Done /\ form.orcado_despesas_mes = 0) => "despesas" \notin Raised

\* C11 witness: the budget is 0, the submission has operating expenses, a
\* history row of the series is above its own budget, no overspend alert
C11_Witness ==
    /\ Done
    /\ form.orcado_despesas_mes = 0
    /\ out.dre.despesas_oper > 0
    /\ \E i \in 1..NRows :
          /\ Val(Db, "orcado_despesas", i) > 0
          /\ Val(Db, "despesas", i) > Val(Db, "orcado_despesas", i)
    /\ "despesas" \notin Raised

\* the cumulative balances of the derived series, oldest row first
Acumulados == [i \in 1..NRows |-> Val(Db, "acumulado", i)]

\* the submission of the scenario: January in the history with inflow 1000
\* and outflow 800, February submitted with inflow 1200 and outflow 1500 and
\* no opening balance
CashScenario ==
    /\ Done
    /\ HistUsed
    /\ Len(hist_df.rows) = 1
    /\ Val(hist_df, "entradas", 1) = 1000
    /\ Val(hist_df, "saidas", 1) = 800
    /\ form.mes_ref.ym = 2
    /\ form.saldo_inicial = 0
    /\ form.recebimentos = 1200
    /\ form.saidas_forn = 1500

\* C12 as stated: the negative-cash alert is raised whenever the cumulative
\* balance of the current period's row in the derived series is negative.
C12_AlertWhenCumulativeNegative ==
    Done => \A i \in CurRows : Val(Db, "acumulado", i) < 0 => "caixa" \in Raised

\* C12: the negative-cash alert is raised exactly when the ending cash
\* balance of the submission (opening balance + inflows - outflows) is
\* negative, whatever the cumulative balance of the series; in the scenario
\* the cumulative balances are [200, -100] and the alert is raised.
C12_AlertIffEndingBalanceNegative ==
    /\ Done =>
          /\ out.saldo_final = form.saldo_inicial + form.recebimentos + form.outras_ent
                                - (form.saidas_forn + form.salarios + form.impostos
                                   + form.outras_saidas + form.emprest_par)
          /\ "caixa" \in Raised <=> out.saldo_final < 0
    /\ CashScenario => (Acumulados = <<200, -100>> /\ "caixa" \in Raised)

\* C12 witness: the scenario, with balances [200, -100] and the alert
C12_Witness ==
    /\ CashScenario
    /\ Acumulados = <<200, -100>>
    /\ out.saldo_final = -300
    /\ "caixa" \in Raised

\* a submission whose row ends the series below zero while its own ending
\* balance is not negative: no negative-cash alert
C12_CumulativeNegativeNoAlert ==
    /\ Done
    /\ \E i \in CurRows : Val(Db, "acumulado", i) < 0
    /\ out.saldo_final >= 0
    /\ "caixa" \notin Raised

\* the canonical name an uploaded column name stands for
CanonName(c) == rename_map(StripLower(c))

\* the columns of df that stand for the canonical column c
ColsFor(df, c) == {j \in 1..Len(df.cols) : CanonName(df.cols[j]) = c}

\* the raw row r of df has a period written YYYY-MM or YYYY/MM
HasPeriod(df, r) == \E j \in ColsFor(df, "mes") : r[j].k = "ym"

\* the canonical row the raw row r of df stands for: its period on the first
\* day of the month, its numbers, and 0 for what is no number or is absent
CanonRow(df, r) ==
    [k \in 1..Len(needed) |->
        IF k = 1
        THEN LET j == CHOOSE j \in ColsFor(df, "mes") : r[j].k = "ym"
             IN  Ts(r[j].ym, 1, 0)
        ELSE IF \E j \in ColsFor(df, needed[k]) : r[j].k = "num"
             THEN r[CHOOSE j \in ColsFor(df, needed[k]) : r[j].k = "num"]
             ELSE Num(0)]

\* the canonical rows of the raw rows of df that have a period
CanonRows(df) ==
    LET kept == SelectSeq(df.rows, LAMBDA r : HasPeriod(df, r))
    IN  [i \in 1..Len(kept) |-> CanonRow(df, kept[i])]

\* how often x occurs in the sequence s
Count(s, x) == Cardinality({i \in 1..Len(s) : s[i] = x})

\* the sequences a and b hold the same elements, each as often
SameRows(a, b) ==
    /\ Len(a) = Len(b)
    /\ \A i \in 1..Len(a) : Count(a, a[i]) = Count(b, a[i])

\* the normalizer has run on the raw upload
Normalized == pc \in {"norm_done", "raised"}

\* C13: for any upload the normalizer returns, without an exception, a frame
\* with the canonical columns whose rows are the raw rows that have a
\* YYYY-MM or YYYY/MM period, duplicates kept, the period on the first day of
\* its month, 0 for every value that is no number or absent, by ascending
\* period.
C13_NormalizerTotal ==
    Normalized =>
       /\ hist_df # Exception
       /\ hist_df.cols = needed
       /\ SameRows(hist_df.rows, CanonRows(file))
       /\ \A i \in 1..(Len(hist_df.rows) - 1) :
             TsKey(hist_df.rows[i][1]) <= TsKey(hist_df.rows[i + 1][1])

\* the upload has no two columns that stand for the same canonical column
UniqueNames == \A k \in 1..Len(needed) : Cardinality(ColsFor(file, needed[k])) <= 1

\* the part of C13 the code keeps: uploads whose columns stand for different
\* canonical columns are normalized as C13 says
C13_NormalizerOnUniqueNames == UniqueNames => C13_NormalizerTotal

\* an upload of two rows that has the cost in the columns cpv and csv ends
\* the run with an exception
C13_RaisedOnTwoAliases ==
    /\ pc = "raised"
    /\ hist_df = Exception
    /\ Len(file.rows) = 2
    /\ Cardinality(ColsFor(file, "cpv_csv")) = 2

\* what session 1 of the ledger page shows
Page == view[1]

\* the expense amounts of the month m in the categories cats among the rows
ExpenseTotal(rows, m, cats) ==
    SumValor(SelectSeq(rows, LAMBDA r : /\ r.tipo = "Despesa"
                                         /\ r.data.ym = m
                                         /\ r.categoria \in cats))

\* the expense amounts of the category c among the rows
CategoryTotal(rows, c) ==
    SumValor(SelectSeq(rows, LAMBDA r : r.tipo = "Despesa" /\ r.categoria = c))

RECURSIVE SumAll(_)
\* the sum of the values of the function fn
SumAll(fn) ==
    IF DOMAIN fn = {} THEN 0
    ELSE LET x == CHOOSE x \in DOMAIN fn : TRUE
         IN  fn[x] + SumAll([y \in DOMAIN fn \ {x} |-> fn[y]])

\* C14: for every filtered set of transactions, the outflow total of each
\* month of the summary is the sum of that month's expense amounts over the
\* categories of the breakdown, each category total is the sum of its own
\* expense rows, and the category totals add up to the outflow totals.
C14_BreakdownAddsUpToOutflows ==
    Page.resumo_built =>
       /\ \A m \in DOMAIN Page.resumo :
             Page.resumo[m].Saidas
                = ExpenseTotal(Page.filtrados, m, DOMAIN Page.despesas_cat)
       /\ \A c \in DOMAIN Page.despesas_cat :
             Page.despesas_cat[c] = CategoryTotal(Page.filtrados, c)
       /\ SumAll(Page.despesas_cat)
             = SumAll([m \in DOMAIN Page.resumo |-> Page.resumo[m].Saidas])

\* every expense shown has a category
AllCategorized ==
    \A i \in 1..Len(Page.filtrados) :
       Page.filtrados[i].tipo = "Despesa" => Page.filtrados[i].categoria # NA

\* the part of C14 the code keeps: it holds when every expense has a category
C14_BreakdownWhenCategorized == AllCategorized => C14_BreakdownAddsUpToOutflows

\* two expenses of one month in two categories, each category with its own
\* total and the month with their sum
C14_TwoCategoriesOneMonth ==
    /\ Page.resumo_built
    /\ AllCategorized
    /\ DOMAIN Page.despesas_cat = {"Aluguel", "Marketing"}
    /\ DOMAIN Page.resumo = {1}
    /\ Page.resumo[1].Saidas = 120
    /\ Page.despesas_cat["Aluguel"] = 50
    /\ Page.despesas_cat["Marketing"] = 70

\* the ledger had transactions and the filters of the run selected none
EmptySelection == ~Page.sem_lancamentos /\ Page.filtrados = <<>>

\* C15: when the filters select no transaction of a ledger that has some,
\* the page shows the empty-state notice and builds neither the summary by
\* month nor the metrics of the extreme months nor the charts.
C15_EmptySelectionShowsEmptyState ==
    EmptySelection =>
       /\ Page.sem_lancamentos \/ Page.sem_despesas
       /\ ~Page.resumo_built
       /\ ~Page.destaques.shown
       /\ ~Page.charts

\* the page of a run whose filters selected nothing: the summary is built,
\* empty, the charts are drawn, the metrics are not shown and the only
\* notice is the one of the expenses by category
C15_EmptySelectionStillBuilt ==
    /\ EmptySelection
    /\ Page.resumo_built
    /\ DOMAIN Page.resumo = {}
    /\ Page.charts
    /\ ~Page.destaques.shown
    /\ Page.sem_despesas

\* what the next load_transacoes() returns
Loaded == load_transacoes(cache, csv)

\* the line of the file holds the transaction row: its date written
\* DD/MM/YYYY, an empty field for a missing category, the other cells as
\* they are
IsLineOf(line, row) ==
    /\ line.data.dd = row.data.d
    /\ line.data.mm = MonthOf(row.data.ym)
    /\ line.data.yyyy = YearOf(row.data.ym)
    /\ line.categoria = (IF row.categoria = NA THEN "" ELSE row.categoria)
    /\ line.tipo = row.tipo
    /\ line.descricao = row.descricao
    /\ line.valor = row.valor
    /\ line.conta = row.conta
    /\ line.pago = row.pago

\* the rows are the lines, one for one, in some order
RowsAreLines(rows, lines) ==
    /\ Len(rows) = Len(lines)
    /\ \E p \in Permutations(1..Len(rows)) :
          \A i \in 1..Len(rows) : IsLineOf(lines[p[i]], rows[i])

\* the rows are in ascending date order
Ascending(rows) ==
    \A i \in 1..(Len(rows) - 1) : DateKey(rows[i].data) <= DateKey(rows[i + 1].data)

\* C16: after any sequence of writes (add, save edits, clear all) the next
\* load_transacoes returns exactly the rows the most recent save wrote to
\* the file, in ascending date order, and never a frame cached before it.
C16_LoadReturnsLastSave ==
    /\ csv.exists => RowsAreLines(Loaded, csv.lines)
    /\ ~csv.exists => Loaded = <<>>
    /\ Ascending(Loaded)

\* C16 witness: edits were saved over a ledger that had been loaded, the
\* file holds its lines out of date order, and the next load returns them
\* by date
C16_Witness ==
    /\ Page.msg.kind = "salvos"
    /\ Len(csv.lines) >= 2
    /\ \E i \in 1..(Len(csv.lines) - 1) :
          DateKey(parse_dayfirst(csv.lines[i].data))
             > DateKey(parse_dayfirst(csv.lines[i + 1].data))
    /\ Len(Loaded) = Len(csv.lines)
    /\ Ascending(Loaded)

\* the lines of the stored ledger
Stored == IF csv.exists THEN csv.lines ELSE <<>>

\* the number of transactions the request f asks for
Asked(f) == IF f.recorrente THEN f.meses_qtd ELSE 1

\* the line of the k-th transaction (k = 0, 1, ...) of the request f: dated
\* k calendar months after the start date (on the last day of the month when
\* it has no such day), the description suffixed by the position from the
\* second on, the other values those of the request
RequestLine(f, k) ==
    [data |-> [dd |-> IF f.data_i.d <= DaysIn(f.data_i.ym + k)
                      THEN f.data_i.d ELSE DaysIn(f.data_i.ym + k),
               mm |-> MonthOf(f.data_i.ym + k),
               yyyy |-> YearOf(f.data_i.ym + k)],
     tipo |-> f.tipo_i, categoria |-> f.categoria_i,
     descricao |-> IF k = 0 THEN [text |-> f.descricao_i, m |-> 0, of |-> 0]
                   ELSE [text |-> f.descricao_i, m |-> k + 1, of |-> f.meses_qtd],
     valor |-> f.valor_i, conta |-> f.conta_i, pago |-> f.pago_i]

\* the lines b are the lines a in some order
SameLines(a, b) ==
    /\ Len(a) = Len(b)
    /\ \E p \in Permutations(1..Len(a)) : \A i \in 1..Len(a) : b[p[i]] = a[i]

\* the save of the Adicionar handler of session 1 leaves the stored lines
\* as they were and appends the lines of the request
AppendsRequest ==
    /\ Len(csv'.lines) = Len(Stored) + Asked(ses[1].req)
    /\ SameLines(Stored, SubSeq(csv'.lines, 1, Len(Stored)))
    /\ \A k \in 0..(Asked(ses[1].req) - 1) :
          csv'.lines[Len(Stored) + k + 1] = RequestLine(ses[1].req, k)

\* C17: a recurring request of N months appends exactly N transactions to
\* the stored ledger, the k-th dated k calendar months after the start date,
\* all with the type, category, amount, account and paid flag of the request,
\* the first with its description and the others with the description
\* suffixed by their position; a request that is not recurring appends
\* exactly one whatever N is; no stored transaction is changed.
C17_RecurringAppendsMonthlyRows ==
    [][(ses[1].pc = "adding" /\ ses'[1].pc = "idle") => AppendsRequest]_vars

\* C17 witness: a rent asked monthly for three months from 31 January is
\* stored on 31/01, 29/02 and 31/03
C17_Witness ==
    /\ Page.msg = [kind |-> "adicionados", n |-> 3]
    /\ ses[1].req.recorrente
    /\ ses[1].req.meses_qtd = 3
    /\ Len(csv.lines) = 3
    /\ \A k \in 0..2 : csv.lines[k + 1] = RequestLine(ses[1].req, k)
    /\ csv.lines[2].data = [dd |-> 29, mm |-> 2, yyyy |-> 2024]
    /\ csv.lines[3].data = [dd |-> 31, mm |-> 3, yyyy |-> 2024]
    /\ csv.lines[3].descricao = [text |-> "aluguel", m |-> 3, of |-> 3]

\* a request that is not recurring and has N = 3 stored one transaction
\* below the one that was there
C17_SingleWhateverN ==
    /\ Page.msg = [kind |-> "adicionados", n |-> 1]
    /\ ~ses[1].req.recorrente
    /\ ses[1].req.meses_qtd = 3
    /\ Len(csv.lines) = 2

\* the lines are the rows, line by line
LinesAre(lines, rows) ==
    /\ Len(lines) = Len(rows)
    /\ \A i \in 1..Len(rows) : IsLineOf(lines[i], rows[i])

\* C18: the ledger store is last-writer-wins: whatever the file holds when
\* an add operation saves, the file holds afterwards exactly the frame that
\* operation loaded plus its own new rows; so when two add operations have
\* both loaded before either saves, the rows of the first saver are lost.
C18_LastWriterWins ==
    [][\A s \in Sessions :
          (ses[s].pc = "adding" /\ ses'[s].pc = "idle")
             => LinesAre(csv'.lines, ses[s].df \o ses[s].linhas)]_vars

\* the stored ledger has no line of the last request of session s
NoLineOf(s) ==
    \A i \in 1..Len(Stored) : \A k \in 0..(Asked(ses[s].req) - 1) :
       Stored[i] # RequestLine(ses[s].req, k)

\* C18 witness: both sessions have added, each is told so, and the stored
\* ledger holds the rows of one of them only
C18_Witness ==
    /\ \A s \in Sessions : ses[s].pc = "idle" /\ view[s].msg.kind = "adicionados"
    /\ \E s \in Sessions :
          /\ NoLineOf(s)
          /\ Len(Stored) = view[3 - s].msg.n
          /\ Stored[1] = RequestLine(ses[3 - s].req, 0)

\* C19: every history row of the derived series has the net result net
\* revenue - cost - operating expenses, also when the upload has a net
\* result column of its own; the current period's row has the net result of
\* the statement, financial items and taxes included; the margin of each
\* row is taken from that row's own net result.
C19_HistoryNetResultApproximated ==
    Done =>
       /\ \A i \in (1..NRows) \ CurRows :
             Val(Db, "lucro_liq", i)
                = Val(Db, "receita_liq", i) - Val(Db, "cpv_csv", i) - Val(Db, "despesas", i)
       /\ \A i \in CurRows :
             /\ Val(Db, "lucro_liq", i) = out.dre.lucro_liq
             /\ Val(Db, "lucro_liq", i)
                   = Val(Db, "receita_liq", i) - Val(Db, "cpv_csv", i)
                     - Val(Db, "despesas", i)
                     - (form.jur_pagos + form.iof + form.tarifas)
                     + (form.jur_receb + form.rend_apl)
                     - (form.ir_val + form.csll_val)
       /\ \A i \in 1..NRows :
             IsNetMargin(Col(Db, "margem_liq_pct")[i],
                         Val(Db, "lucro_liq", i), Val(Db, "receita_liq", i))

\* C19 witness: the upload gives January a net result of 5, the series has
\* it at 100 - 40 - 30 = 30 with margin 30 %, and the current row has a net
\* result with interest and tax taken off
C19_Witness ==
    /\ Done
    /\ HistUsed
    /\ HasCol(file, "lucro_liq")
    /\ \E j \in 1..Len(file.rows) :
          Val(file, "lucro_liq", j) = 5 /\ Val(file, "receita_liq", j) = 100
    /\ \E i \in (1..NRows) \ CurRows :
          /\ Val(Db, "receita_liq", i) = 100
          /\ Val(Db, "lucro_liq", i) = 30
          /\ Col(Db, "margem_liq_pct")[i].v = 30 * Col(Db, "margem_liq_pct")[i].q
    /\ \E i \in CurRows :
          /\ form.jur_pagos + form.ir_val > 0
          /\ Val(Db, "lucro_liq", i)
                < Val(Db, "receita_liq", i) - Val(Db, "cpv_csv", i) - Val(Db, "despesas", i)

====
